---- MODULE Spec2Model ----
(***************************************************************************)
(* Incremental log pullers of wazuh-integrations: the GitLab SaaS, Okta    *)
(* and Google Workspace scripts.  Each script is a process that is run     *)
(* from the shell, reads its watermark, pages through the vendor API and   *)
(* appends records to a log file.  The vendor API (the connector) is the   *)
(* environment: it holds a growing set of events and answers page          *)
(* requests, correctly or not.                                             *)
(*                                                                         *)
(* Time is counted in ticks; TicksPerSecond ticks make one second, so that *)
(* the second-resolution formatting of the GitLab watermark is visible.    *)
(* Event number i of a stream has timestamp TS(i); events become visible   *)
(* upstream in the order of their numbers.                                 *)
(***************************************************************************)
EXTENDS Integers, Sequences, FiniteSets, TLC

\* ---------------------------------------------------------------- bounds
NEvents == 3          \* events a stream can hold upstream
PageSize == 2         \* stands for LIMIT / maxResults (1000 in the scripts)
MaxPages == 3         \* pages per cycle explored (GitLab: recursion depth)
MaxLogLen == 2        \* a Google Workspace run starts only below this length
MaxResults == 2       \* a GitLab process is reused only below this length
TicksPerSecond == 2
GL_Lookback == 2      \* timedelta(hours=5), in ticks
OK_Lookback == 1      \* timedelta(minutes=15), in ticks
MaxForeign == 1       \* lines in a log that are not records of its script
MaxListLen == 1       \* length of a list inside a raw event of any shape
MaxBatch == 2         \* events in a batch handed to write_logs

\* ------------------------------------------------------------- constants
None == -9            \* Python's None where a timestamp is expected

\* three of the five applications named in the script's event_types
Types == {"admin", "groups", "saml"}
Streams == {"gitlab", "okta"} \cup Types

Min(a, b) == IF a < b THEN a ELSE b
Max(a, b) == IF a > b THEN a ELSE b

\* timestamp of event number i: 1, 1, 3, 5, ...  (events 1 and 2 share one)
TS(i) == IF i = 1 THEN 1 ELSE 2 * i - 3

\* strftime('%Y-%m-%dT%H:%M:%SZ'): the fraction of the second is dropped
TruncSec(t) == (t \div TicksPerSecond) * TicksPerSecond

\* ----------------------------------------------------------- JSON values
\* A Python value that json can carry: a number, a string, a dict (a function
\* on its keys; the order of the keys is not kept) or a list.
JNum(n) == [t |-> "num", v |-> n]
JStr(s) == [t |-> "str", v |-> s]
JDict(f) == [t |-> "dict", v |-> f]
JList(q) == [t |-> "list", v |-> q]
EmptyDict == JDict(<<>>)

IsDict(x) == x.t = "dict"
IsList(x) == x.t = "list"
IsScalar(x) == x.t \in {"num", "str"}
Has(d, key) == key \in DOMAIN d.v

\* a line of a log file is the json.dumps of a dict, or text that json.loads
\* rejects with JSONDecodeError
NotJSON == [t |-> "text", v |-> "###"]
Decodes(line) == line.t # "text"

\* ------------------------------------------------------------ raw events
GLEvent(i) ==
    JDict([id |-> JNum(i), created_at |-> JNum(TS(i)),
           details |-> JDict([change |-> JStr("x")])])
OKEvent(i) ==
    JDict([uuid |-> JNum(i), published |-> JNum(TS(i)),
           target |-> JList(<<JDict([type |-> JStr("User")])>>)])
GWEvent(et, i) ==
    JDict([id |-> JDict([time |-> JNum(TS(i)), uniqueQualifier |-> JNum(i),
                         applicationName |-> JStr(et)])])

\* ------------------------------------------------------------- connector
\* The numbers of the n visible events with timestamp at or after bound
\* (None: no lower bound), oldest first or newest first.
FirstFrom(n, bound) ==
    IF \E i \in 1..n : TS(i) >= bound
    THEN CHOOSE i \in 1..n : TS(i) >= bound /\ \A j \in 1..n : TS(j) >= bound => i <= j
    ELSE n + 1

Match(n, bound, ord) ==
    LET lo == FirstFrom(n, bound)
    IN  [k \in 1..(n - lo + 1) |-> IF ord = "asc" THEN lo + k - 1 ELSE n - k + 1]

NPages(M) == (Len(M) + PageSize - 1) \div PageSize
Page(M, p) == SubSeq(M, (p - 1) * PageSize + 1, Min(p * PageSize, Len(M)))

Kinds == {"ok", "error", "sticky", "emptymore"}

\* One answer of the API to the request for page p of the matching events M.
\*   ok        : the page, and a continuation iff pages remain
\*   error     : HTTP error status / transport error
\*   sticky    : a non-empty page that always carries a continuation
\*   emptymore : an empty page that still carries a continuation
Response(M, p, kind) ==
    CASE kind = "ok" -> [status |-> 200, items |-> Page(M, p), more |-> p < NPages(M)]
      [] kind = "error" -> [status |-> 500, items |-> <<>>, more |-> FALSE]
      [] kind = "sticky" -> [status |-> 200, items |-> Page(M, Min(p, NPages(M))), more |-> TRUE]
      [] OTHER -> [status |-> 200, items |-> <<>>, more |-> TRUE]

Answers(M, p) == {Response(M, p, k) : k \in IF M = <<>> THEN Kinds \ {"sticky"} ELSE Kinds}
Lying(r, M, p) == r.status = 200 /\ r # Response(M, p, "ok")

RECURSIVE MaxOf(_)
MaxOf(S) == IF S = {} THEN None
            ELSE LET x == CHOOSE y \in S : TRUE IN Max(x, MaxOf(S \ {x}))

VARIABLES
    script,      \* the script observed: the three share no file and no state
    event_types, \* the list of applications the Google Workspace script pulls
    up,          \* [Streams -> 0..NEvents]: events visible upstream
    running,     \* "none" or the script whose process is alive
    pc,          \* position of that process
    order,       \* order in which the API lists events in this cycle
    gl_log, gl_params, gl_results, gl_logs,
    ok_log, ok_start, ok_events,
    gw_log, gw_file, gw_torn, gw_last, gw_idx, gw_logs, gw_token,
    \* history of the run in progress, for stating properties
    outcome,     \* [Streams -> "none" | "done" | "aborted"]
    bound0,      \* [Streams -> starting bound of the cycle]
    seen,        \* [Streams -> numbers of the events fetched in it]
    log0,        \* length of the run's log file when it started
    lied,        \* the API gave a sticky/emptymore answer in this run
    last,        \* the pages answered in this cycle, and the last answer
    mode,        \* "first" | "rerun" | "recovery": what the run follows
    prev         \* "dirty" | "clean" | "crashed": how the last run left things

glv == <<gl_log, gl_params, gl_results, gl_logs>>
okv == <<ok_log, ok_start, ok_events>>
gwv == <<gw_log, gw_file, gw_torn, gw_last, gw_idx, gw_logs, gw_token>>
hist == <<outcome, bound0, seen, log0, lied, last, mode, prev>>
conf == <<script, event_types>>
vars == <<conf, up, running, pc, order, glv, okv, gwv, hist>>

\* the streams a script pulls
StreamsOf(src) ==
    IF src = "gw" THEN {event_types[i] : i \in 1..Len(event_types)} ELSE {src}

Sources == {"gitlab", "okta", "gw"}
NoStream == [s \in Streams |-> None]
NoType == [k \in Types |-> None]
NoneSeen == [s \in Streams |-> {}]
NoOutcome == [s \in Streams |-> "none"]
NoPage == [n |-> 0, status |-> 0, items |-> 0, more |-> FALSE]
Answered(r) == [n |-> last.n + 1, status |-> r.status, items |-> Len(r.items), more |-> r.more]

\* datetime.utcnow(): the clock reads the timestamp of the newest event of s
Now(s) == IF up[s] > 0 THEN TS(up[s]) ELSE 0

Init ==
    /\ script \in Sources
    /\ event_types = <<"admin", "groups">>
    /\ up = [s \in Streams |-> 0]
    /\ running = "none" /\ pc = "idle" /\ order = "asc"
    /\ gl_log = <<>> /\ gl_params = [page |-> 1, created_after |-> 0]
    /\ gl_results = <<>> /\ gl_logs = <<>>
    /\ ok_log = <<>> /\ ok_start = 0 /\ ok_events = <<>>
    /\ gw_log = <<>> /\ gw_file = NoType /\ gw_torn = FALSE /\ gw_last = NoType
    /\ gw_idx = 1 /\ gw_logs = <<>> /\ gw_token = None
    /\ outcome = NoOutcome /\ bound0 = NoStream /\ seen = NoneSeen
    /\ log0 = 0 /\ lied = FALSE /\ last = NoPage /\ mode = "first" /\ prev = "dirty"

\* A new event becomes visible upstream (between runs: a cycle is served
\* from the events visible when it started).
Arrive(s) ==
    /\ running = "none"
    /\ s \in StreamsOf(script)
    /\ up[s] < NEvents
    /\ up' = [up EXCEPT ![s] = @ + 1]
    /\ prev' = IF prev = "clean" THEN "dirty" ELSE prev
    /\ UNCHANGED <<conf, running, pc, order, glv, okv, gwv, outcome, bound0, seen, log0, lied, last, mode>>

\* history at the start of a run of src; oc: the outcomes known at once
Started(src, bounds, len, oc) ==
    /\ outcome' = oc
    /\ bound0' = [s \in Streams |-> IF s \in StreamsOf(src) THEN bounds[s] ELSE None]
    /\ seen' = NoneSeen
    /\ log0' = len
    /\ lied' = FALSE
    /\ last' = NoPage
    /\ mode' = CASE prev = "clean" -> "rerun" [] prev = "crashed" -> "recovery" [] OTHER -> "first"
    /\ prev' = "dirty"

BeginRun(src, bounds, len) == Started(src, bounds, len, NoOutcome)

\* the last line of the file that json.loads accepts (0: there is none)
LastDecoded(file) ==
    IF \E k \in 1..Len(file) : Decodes(file[k])
    THEN CHOOSE k \in 1..Len(file) :
            Decodes(file[k]) /\ \A j \in (k + 1)..Len(file) : ~Decodes(file[j])
    ELSE 0

\* some line that json.loads accepts has no such key: KeyError
LacksKey(file, key) == \E k \in 1..Len(file) : Decodes(file[k]) /\ ~Has(file[k], key)

NoDuplicateLines(log) == \A i, j \in 1..Len(log) : log[i] = log[j] => i = j

\* The process has returned from main ("exit") or was killed or died of an
\* uncaught exception ("dead"); the shell reaps it.
Reap ==
    /\ running # "none" /\ pc \in {"exit", "dead"}
    /\ running' = "none" /\ pc' = "idle" /\ order' = "asc"
    /\ gl_params' = [page |-> 1, created_after |-> 0] /\ gl_logs' = <<>>
    /\ gl_results' = IF pc = "dead" THEN <<>> ELSE gl_results
    /\ ok_start' = 0 /\ ok_events' = <<>>
    /\ gw_last' = NoType /\ gw_idx' = 1 /\ gw_logs' = <<>> /\ gw_token' = None
    /\ prev' = CASE pc = "exit" /\ ~lied /\ (\A s \in StreamsOf(running) : outcome[s] = "done")
                      -> "clean"
                 [] pc = "dead" /\ running = "gw" /\ Len(gw_log) > log0
                      /\ NoDuplicateLines(gw_log) -> "crashed"
                 [] OTHER -> "dirty"
    /\ outcome' = NoOutcome /\ bound0' = NoStream /\ seen' = NoneSeen
    /\ log0' = 0 /\ lied' = FALSE /\ last' = NoPage /\ mode' = "first"
    /\ UNCHANGED <<conf, up, gl_log, ok_log, gw_log, gw_file, gw_torn>>

\* The process is killed between two steps.
Crash ==
    /\ running # "none" /\ pc \notin {"exit", "dead"}
    /\ pc' = "dead"
    /\ UNCHANGED <<conf, up, running, order, glv, okv, gwv, hist>>

\* ------------------------------------------------------ Google Workspace
\* fromisoformat(v) / v.isoformat(): exact to the microsecond, both ways;
\* a key the file lacks reads as None through last_timestamps.get
load_last_timestamps(file) == [k \in Types |-> file[k]]

save_last_timestamps(last_timestamps) == [k \in Types |-> last_timestamps[k]]

get_latest_timestamp(logs) == MaxOf({logs[k].v["id"].v["time"].v : k \in 1..Len(logs)})

\* name[:-1] for the name that flatten has built along path: the segments
\* joined by '_'
RECURSIVE Join(_)
Join(path) ==
    IF path = <<>> THEN ""
    ELSE IF Len(path) = 1 THEN path[1]
    ELSE path[1] \o "_" \o Join(Tail(path))

\* the assignments out[key] = value that flatten(x, name) makes, as pairs
RECURSIVE flatten(_, _)
flatten(x, path) ==
    CASE IsDict(x) -> UNION {flatten(x.v[a], Append(path, a)) : a \in DOMAIN x.v}
      [] IsList(x) -> UNION {flatten(x.v[i], Append(path, ToString(i - 1))) : i \in 1..Len(x.v)}
      [] OTHER -> {<<Join(path), x>>}

\* flatten_json: out after all assignments; of two assignments to one key
\* one survives (in Python the later one, in the order of the keys)
flatten_json(y) ==
    LET out == flatten(y, <<>>)
    IN  JDict([key \in {p[1] : p \in out} |-> (CHOOSE p \in out : p[1] = key)[2]])

\* {'source': 'google-workspace'} updated with the flattened activity
log_with_source(log) ==
    JDict(flatten_json(log).v @@ [source |-> JStr("google-workspace")])

save_logs_to_file(logs, file) ==
    IF logs # <<>> THEN file \o [k \in 1..Len(logs) |-> log_with_source(logs[k])] ELSE file

GW_Start ==
    /\ script = "gw" /\ running = "none"
    /\ Len(gw_log) < MaxLogLen
    /\ running' = "gw"
    /\ gw_idx' = 1 /\ gw_logs' = <<>> /\ gw_token' = None
    /\ IF gw_torn
       THEN \* json.load raises JSONDecodeError on a file that is not complete
            /\ pc' = "dead" /\ order' = order /\ gw_last' = NoType
            /\ Started("gw", NoStream, Len(gw_log),
                       [s \in Streams |-> IF s \in StreamsOf("gw") THEN "raised" ELSE "none"])
       ELSE /\ pc' = "gw_fetch"
            /\ \E o \in {"asc", "desc"} : order' = o
            /\ gw_last' = load_last_timestamps(gw_file)
            /\ BeginRun("gw", [s \in Streams |-> IF s \in Types THEN gw_file[s] ELSE None],
                        Len(gw_log))
    /\ UNCHANGED <<conf, up, glv, okv, gw_log, gw_file, gw_torn>>

\* GW_loop_body without the break on an empty page: only a missing
\* nextPageToken ends the loop
GW_loop_body_token_only(logs, page_token, et, r) ==
    IF r.status # 200
    THEN [logs |-> logs, page_token |-> page_token, break |-> TRUE]
    ELSE [logs |-> logs \o [k \in 1..Len(r.items) |-> GWEvent(et, r.items[k])],
          page_token |-> IF r.more THEN r.next ELSE None,
          break |-> ~r.more]

\* the body of the while loop of fetch_and_log_events for the answer r:
\* the new logs and page_token, and whether the loop is left
GW_loop_body(logs, page_token, et, r) ==
    IF r.status # 200
    THEN [logs |-> logs, page_token |-> page_token, break |-> TRUE]
    ELSE IF r.items = <<>>
    THEN [logs |-> logs, page_token |-> page_token, break |-> TRUE]
    ELSE [logs |-> logs \o [k \in 1..Len(r.items) |-> GWEvent(et, r.items[k])],
          page_token |-> IF r.more THEN r.next ELSE None,
          break |-> ~r.more]

\* one pass of the while loop of fetch_and_log_events
GW_FetchPage ==
    /\ running = "gw" /\ pc = "gw_fetch"
    /\ LET et == event_types[gw_idx]
           p == IF gw_token = None THEN 1 ELSE gw_token
           M == Match(up[et], gw_last[et], order)
       IN  /\ p <= MaxPages
           /\ \E a \in Answers(M, p) :
                LET r == [status |-> a.status, items |-> a.items, more |-> a.more, next |-> p + 1]
                    b == GW_loop_body(gw_logs, gw_token, et, r)
                IN  /\ lied' = (lied \/ Lying(a, M, p))
                    /\ last' = Answered(a)
                    /\ gw_logs' = b.logs
                    /\ gw_token' = b.page_token
                    /\ pc' = IF b.break THEN "gw_update" ELSE "gw_fetch"
                    /\ outcome' = IF a.status # 200 THEN [outcome EXCEPT ![et] = "aborted"]
                                  ELSE outcome
                    /\ seen' = [seen EXCEPT ![et] = @ \cup {a.items[k] : k \in 1..Len(a.items)}]
    /\ UNCHANGED <<conf, up, running, order, glv, okv, gw_log, gw_file, gw_torn, gw_last, gw_idx,
                   bound0, log0, mode, prev>>

\* update_last_timestamps without the 'if logs' guard: an empty fetch
\* stores None
update_last_timestamps_unguarded(last_timestamps, event_type, logs) ==
    [last_timestamps EXCEPT ![event_type] = get_latest_timestamp(logs)]

\* main, lines 151-152: the in-memory watermark of the event type
update_last_timestamps(last_timestamps, event_type, logs) ==
    IF logs # <<>>
    THEN [last_timestamps EXCEPT ![event_type] = get_latest_timestamp(logs)]
    ELSE last_timestamps

\* GW_Update that also saves the timestamps file at once, before the logs
\* of the event type are written
GW_Update_saving ==
    /\ running = "gw" /\ pc = "gw_update"
    /\ gw_last' = update_last_timestamps(gw_last, event_types[gw_idx], gw_logs)
    /\ gw_file' = save_last_timestamps(gw_last')
    /\ pc' = "gw_save_logs"
    /\ last' = NoPage
    /\ UNCHANGED <<conf, up, running, order, glv, okv, gw_log, gw_torn, gw_idx, gw_logs,
                   gw_token, outcome, bound0, seen, log0, lied, mode, prev>>

\* main, lines 148-152: back from fetch_and_log_events
GW_Update ==
    /\ running = "gw" /\ pc = "gw_update"
    /\ gw_last' = update_last_timestamps(gw_last, event_types[gw_idx], gw_logs)
    /\ pc' = "gw_save_logs"
    /\ last' = NoPage
    /\ UNCHANGED <<conf, up, running, order, glv, okv, gw_log, gw_file, gw_torn, gw_idx, gw_logs,
                   gw_token, outcome, bound0, seen, log0, lied, mode, prev>>

\* GW_SaveLogs that leaves the for loop when the fetch brought nothing
GW_SaveLogs_stopping ==
    /\ running = "gw" /\ pc = "gw_save_logs"
    /\ gw_log' = save_logs_to_file(gw_logs, gw_log)
    /\ outcome' = [outcome EXCEPT ![event_types[gw_idx]] = IF @ = "none" THEN "done" ELSE @]
    /\ gw_logs' = <<>> /\ gw_token' = None
    /\ IF gw_idx < Len(event_types) /\ gw_logs # <<>>
       THEN gw_idx' = gw_idx + 1 /\ pc' = "gw_fetch"
       ELSE gw_idx' = gw_idx /\ pc' = "gw_save_ts"
    /\ UNCHANGED <<conf, up, running, order, glv, okv, gw_file, gw_torn, gw_last,
                   bound0, seen, log0, lied, last, mode, prev>>

\* main, lines 155-160, and the step of the for loop
GW_SaveLogs ==
    /\ running = "gw" /\ pc = "gw_save_logs"
    /\ gw_log' = save_logs_to_file(gw_logs, gw_log)
    /\ outcome' = [outcome EXCEPT ![event_types[gw_idx]] = IF @ = "none" THEN "done" ELSE @]
    /\ gw_logs' = <<>> /\ gw_token' = None
    /\ IF gw_idx < Len(event_types)
       THEN gw_idx' = gw_idx + 1 /\ pc' = "gw_fetch"
       ELSE gw_idx' = gw_idx /\ pc' = "gw_save_ts"
    /\ UNCHANGED <<conf, up, running, order, glv, okv, gw_file, gw_torn, gw_last,
                   bound0, seen, log0, lied, last, mode, prev>>

\* main, line 163, save_last_timestamps, line 50: open(filename, 'w') leaves
\* the file empty; until json.dump is through it holds no complete document
GW_OpenTimestamps ==
    /\ running = "gw" /\ pc = "gw_save_ts"
    /\ gw_torn' = TRUE
    /\ pc' = "gw_dump_ts"
    /\ UNCHANGED <<conf, up, running, order, glv, okv, gw_log, gw_file, gw_last, gw_idx,
                   gw_logs, gw_token, hist>>

\* save_last_timestamps, lines 51-53: the document is written, the file closed
GW_SaveTimestamps ==
    /\ running = "gw" /\ pc = "gw_dump_ts"
    /\ gw_file' = save_last_timestamps(gw_last)
    /\ gw_torn' = FALSE
    /\ pc' = "exit"
    /\ UNCHANGED <<conf, up, running, order, glv, okv, gw_log, gw_last, gw_idx, gw_logs,
                   gw_token, hist>>

NextGW ==
    GW_Start \/ GW_FetchPage \/ GW_Update \/ GW_SaveLogs \/ GW_OpenTimestamps \/ GW_SaveTimestamps

\* ---------------------------------------------------------------- GitLab
\* get_last_timestamp: lines that do not decode are skipped; the first line
\* from the end that decodes must have 'created_at', else KeyError
GL_get_last_timestamp_raises(file) ==
    LastDecoded(file) > 0 /\ ~Has(file[LastDecoded(file)], "created_at")

\* the timestamp of that line, to the second, else five hours ago
GL_get_last_timestamp(file, now) ==
    IF LastDecoded(file) > 0
    THEN TruncSec(file[LastDecoded(file)].v["created_at"].v)
    ELSE TruncSec(now - GL_Lookback)

\* event.copy() plus one details_<key> entry per key of 'details', and one
\* details_registration_<key> entry per key of its 'registration_details'
flatten_details_field(event) ==
    LET details == IF Has(event, "details") THEN event.v["details"] ELSE EmptyDict
        keys == IF IsDict(details) THEN DOMAIN details.v ELSE {}
        flat == [f \in {"details_" \o key : key \in keys} |->
                    details.v[CHOOSE key \in keys : "details_" \o key = f]]
        reg == IF "registration_details" \in keys /\ IsDict(details.v["registration_details"])
               THEN details.v["registration_details"] ELSE EmptyDict
        regflat == [f \in {"details_registration_" \o key : key \in DOMAIN reg.v} |->
                       reg.v[CHOOSE key \in DOMAIN reg.v : "details_registration_" \o key = f]]
    IN  JDict(regflat @@ flat @@ event.v)

\* {"source": "gitlab-events", **event}
GL_modified_event(event) == JDict(event.v @@ [source |-> JStr("gitlab-events")])

\* the loop over events of write_logs: the file, and whether event['id']
\* raised KeyError on the way
RECURSIVE GL_append_new(_, _, _)
GL_append_new(file, existing_ids, events) ==
    IF events = <<>> THEN [file |-> file, raised |-> FALSE]
    ELSE LET event == Head(events)
         IN  IF ~Has(event, "id") THEN [file |-> file, raised |-> TRUE]
             ELSE IF event.v["id"] \notin existing_ids
             THEN GL_append_new(Append(file, GL_modified_event(event)),
                                existing_ids \cup {event.v["id"]}, Tail(events))
             ELSE GL_append_new(file, existing_ids, Tail(events))

\* write_logs: log_entry['id'] of every line that decodes, then the loop
GL_write_logs(file, events) ==
    IF LacksKey(file, "id") THEN [file |-> file, raised |-> TRUE]
    ELSE GL_append_new(file, {file[k].v["id"] : k \in {j \in 1..Len(file) : Decodes(file[j])}},
                       events)

\* main up to the call of get_logs.  A process that calls main again keeps
\* the list that get_logs has as the default value of 'results'.
GL_Start ==
    /\ script = "gitlab" /\ running = "none"
    /\ running' = "gitlab"
    /\ \E fresh \in BOOLEAN :
          /\ fresh \/ Len(gl_results) <= MaxResults
          /\ gl_results' = IF fresh THEN <<>> ELSE gl_results
    /\ gl_logs' = <<>>
    /\ IF GL_get_last_timestamp_raises(gl_log)
       THEN /\ pc' = "dead" /\ order' = order
            /\ gl_params' = [page |-> 1, created_after |-> 0]
            /\ Started("gitlab", NoStream, Len(gl_log), [NoOutcome EXCEPT !["gitlab"] = "raised"])
       ELSE /\ pc' = "gl_get_logs"
            /\ \E o \in {"asc", "desc"} : order' = o
            /\ gl_params' = [page |-> 1,
                             created_after |-> GL_get_last_timestamp(gl_log, Now("gitlab"))]
            /\ BeginRun("gitlab", [s \in Streams |-> gl_params'.created_after], Len(gl_log))
    /\ UNCHANGED <<conf, up, gl_log, okv, gwv>>

\* GL_get_logs_body that returns what it has collected when a page fails
GL_get_logs_body_partial(results, params, r) ==
    IF r.status = 200
    THEN IF r.items # <<>>
         THEN LET extended == results \o [k \in 1..Len(r.items) |-> GLEvent(r.items[k])]
              IN  IF r.more
                  THEN [results |-> extended, params |-> [params EXCEPT !.page = @ + 1],
                        recurse |-> TRUE, value |-> <<>>]
                  ELSE [results |-> extended, params |-> params,
                        recurse |-> FALSE, value |-> extended]
         ELSE [results |-> results, params |-> params, recurse |-> FALSE, value |-> results]
    ELSE [results |-> results, params |-> params, recurse |-> FALSE, value |-> results]

\* get_logs for the answer r: what is added to results, and whether the
\* function calls itself for the next page or returns (and what)
GL_get_logs_body(results, params, r) ==
    IF r.status = 200
    THEN IF r.items # <<>>
         THEN LET extended == results \o [k \in 1..Len(r.items) |-> GLEvent(r.items[k])]
              IN  IF r.more
                  THEN [results |-> extended, params |-> [params EXCEPT !.page = @ + 1],
                        recurse |-> TRUE, value |-> <<>>]
                  ELSE [results |-> extended, params |-> params,
                        recurse |-> FALSE, value |-> extended]
         ELSE [results |-> results, params |-> params, recurse |-> FALSE, value |-> results]
    ELSE [results |-> results, params |-> params, recurse |-> FALSE, value |-> <<>>]

\* one call of get_logs: one page.  The call for page MaxPages + 1 exhausts
\* the interpreter's stack: RecursionError, which nothing catches.
GL_GetLogs ==
    /\ running = "gitlab" /\ pc = "gl_get_logs"
    /\ LET p == gl_params.page
           M == Match(up["gitlab"], gl_params.created_after, order)
       IN  \E a \in Answers(M, p) :
             LET b == GL_get_logs_body(gl_results, gl_params, a)
                 overflow == b.recurse /\ p >= MaxPages
             IN  /\ lied' = (lied \/ Lying(a, M, p))
                 /\ last' = Answered(a)
                 /\ gl_results' = b.results
                 /\ gl_params' = b.params
                 /\ gl_logs' = b.value
                 /\ seen' = [seen EXCEPT !["gitlab"] = @ \cup {a.items[k] : k \in 1..Len(a.items)}]
                 /\ pc' = IF overflow THEN "dead" ELSE IF b.recurse THEN "gl_get_logs" ELSE "gl_main"
                 /\ outcome' = IF a.status # 200 \/ overflow
                               THEN [outcome EXCEPT !["gitlab"] = "aborted"] ELSE outcome
    /\ UNCHANGED <<conf, up, running, order, gl_log, okv, gwv, bound0, log0, mode, prev>>

\* main, lines 133-142
GL_Main ==
    /\ running = "gitlab" /\ pc = "gl_main"
    /\ LET flattened_logs == [k \in 1..Len(gl_logs) |-> flatten_details_field(gl_logs[k])]
           w == IF gl_logs # <<>> THEN GL_write_logs(gl_log, flattened_logs)
                ELSE [file |-> gl_log, raised |-> FALSE]
       IN  /\ gl_log' = w.file
           /\ pc' = IF w.raised THEN "dead" ELSE "exit"
           /\ outcome' = [outcome EXCEPT !["gitlab"] =
                             IF w.raised THEN "raised" ELSE IF @ = "none" THEN "done" ELSE @]
    /\ last' = NoPage
    /\ UNCHANGED <<conf, up, running, order, gl_params, gl_results, gl_logs, okv, gwv,
                   bound0, seen, log0, lied, mode, prev>>

NextGL == GL_Start \/ GL_GetLogs \/ GL_Main

\* ------------------------------------------------------------------ Okta
\* get_last_timestamp: lines that do not decode are skipped; the first line
\* from the end that decodes must have 'published', else KeyError
OK_get_last_timestamp_raises(file) ==
    LastDecoded(file) > 0 /\ ~Has(file[LastDecoded(file)], "published")

\* datetime.fromisoformat(published): exact; else fifteen minutes ago
OK_get_last_timestamp(file, now) ==
    IF LastDecoded(file) > 0
    THEN file[LastDecoded(file)].v["published"].v
    ELSE now - OK_Lookback

\* the list that flatten_target_field walks: 'target' itself when it is a
\* list; a string is parsed and no string of the model is a JSON text
target_array(event) ==
    IF Has(event, "target") /\ IsList(event.v["target"]) THEN event.v["target"].v ELSE <<>>

\* event.copy() plus one target_<key>_<i> entry per key of each dict of the
\* list
flatten_target_field(event) ==
    LET items == target_array(event)
        at == {<<i, key>> \in (1..Len(items)) \X UNION {IF IsDict(items[i]) THEN DOMAIN items[i].v ELSE {} : i \in 1..Len(items)} :
                  IsDict(items[i]) /\ key \in DOMAIN items[i].v}
        name(a) == "target_" \o a[2] \o "_" \o ToString(a[1] - 1)
        flat == [f \in {name(a) : a \in at} |->
                    LET a == CHOOSE b \in at : name(b) = f IN items[a[1]].v[a[2]]]
    IN  JDict(flat @@ event.v)

\* {"source": "okta-events", **event}
OK_modified_event(event) == JDict(event.v @@ [source |-> JStr("okta-events")])

\* event.get('published', '')
OK_timestamp(event) == IF Has(event, "published") THEN event.v["published"] ELSE JStr("")

RECURSIVE OK_append_new(_, _, _)
OK_append_new(file, existing_timestamps, events) ==
    IF events = <<>> THEN file
    ELSE LET event == Head(events)
         IN  IF OK_timestamp(event) \notin existing_timestamps
             THEN OK_append_new(Append(file, OK_modified_event(event)),
                                existing_timestamps \cup {OK_timestamp(event)}, Tail(events))
             ELSE OK_append_new(file, existing_timestamps, Tail(events))

\* OK_write_logs with the file opened with 'w': what was in it is lost
OK_write_logs_rewriting(file, events) ==
    IF LacksKey(file, "published") THEN [file |-> file, raised |-> TRUE]
    ELSE [file |-> OK_append_new(<<>>,
                      {file[k].v["published"] : k \in {j \in 1..Len(file) : Decodes(file[j])}},
                      events),
          raised |-> FALSE]

\* write_logs: log_entry['published'] of every line that decodes (KeyError
\* when a line has none), then the loop
OK_write_logs(file, events) ==
    IF LacksKey(file, "published") THEN [file |-> file, raised |-> TRUE]
    ELSE [file |-> OK_append_new(file,
                      {file[k].v["published"] : k \in {j \in 1..Len(file) : Decodes(file[j])}},
                      events),
          raised |-> FALSE]

\* main, line 113
OK_Start ==
    /\ script = "okta" /\ running = "none"
    /\ running' = "okta"
    /\ ok_events' = <<>>
    /\ IF OK_get_last_timestamp_raises(ok_log)
       THEN /\ pc' = "dead" /\ order' = order /\ ok_start' = 0
            /\ Started("okta", NoStream, Len(ok_log), [NoOutcome EXCEPT !["okta"] = "raised"])
       ELSE /\ pc' = "ok_fetch"
            /\ \E o \in {"asc", "desc"} : order' = o
            /\ ok_start' = OK_get_last_timestamp(ok_log, Now("okta"))
            /\ BeginRun("okta", [s \in Streams |-> ok_start'], Len(ok_log))
    /\ UNCHANGED <<conf, up, ok_log, glv, gwv>>

\* fetch_events: one request of at most LIMIT events; an error is re-raised
OK_Fetch ==
    /\ running = "okta" /\ pc = "ok_fetch"
    /\ LET M == Match(up["okta"], ok_start, order)
       IN  \E r \in {Response(M, 1, "ok"), Response(M, 1, "error")} :
             IF r.status # 200
             THEN /\ pc' = "dead"
                  /\ outcome' = [outcome EXCEPT !["okta"] = "aborted"]
                  /\ UNCHANGED <<ok_events, seen>>
             ELSE /\ ok_events' = [k \in 1..Len(r.items) |-> OKEvent(r.items[k])]
                  /\ seen' = [seen EXCEPT !["okta"] = {r.items[k] : k \in 1..Len(r.items)}]
                  /\ pc' = "ok_main"
                  /\ UNCHANGED outcome
    /\ UNCHANGED <<conf, up, running, order, ok_log, ok_start, glv, gwv,
                   bound0, log0, lied, last, mode, prev>>

\* main, lines 117-121
OK_Main ==
    /\ running = "okta" /\ pc = "ok_main"
    /\ LET flattened_events == [k \in 1..Len(ok_events) |-> flatten_target_field(ok_events[k])]
           w == IF ok_events # <<>> THEN OK_write_logs(ok_log, flattened_events)
                ELSE [file |-> ok_log, raised |-> FALSE]
       IN  /\ ok_log' = w.file
           /\ pc' = IF w.raised THEN "dead" ELSE "exit"
           /\ outcome' = [outcome EXCEPT !["okta"] = IF w.raised THEN "raised" ELSE "done"]
    /\ UNCHANGED <<conf, up, running, order, ok_start, ok_events, glv, gwv,
                   bound0, seen, log0, lied, last, mode, prev>>

NextOK == OK_Start \/ OK_Fetch \/ OK_Main

Environment == (\E s \in Streams : Arrive(s)) \/ Crash \/ Reap

Next == Environment \/ NextGW \/ NextGL \/ NextOK

\* the three scripts, one of them observed in each behaviour
Spec == Init /\ [][Next]_vars

\* one script alone
InitGW == Init /\ script = "gw"
OnlyGW == Environment \/ NextGW
SpecGW == InitGW /\ [][OnlyGW]_vars

InitGL == Init /\ script = "gitlab"
OnlyGL == Environment \/ NextGL
SpecGL == InitGL /\ [][OnlyGL]_vars

\* A line that is not a valid record gets into the log file of the GitLab or
\* the Okta script: text cut short by a killed writer, which json.loads
\* rejects, or a JSON object without the keys the script looks up.
OtherRecord == JDict([message |-> JStr("x")])
ForeignLines == {NotJSON, OtherRecord}
IsForeign(line) == ~Decodes(line) \/ Has(line, "message")
CountForeign(file) == Cardinality({k \in 1..Len(file) : IsForeign(file[k])})

ForeignLine ==
    /\ running = "none" /\ script \in {"gitlab", "okta"}
    /\ CountForeign(LET file == IF script = "gitlab" THEN gl_log ELSE ok_log IN file) < MaxForeign
    /\ \E line \in ForeignLines :
          IF script = "gitlab"
          THEN gl_log' = Append(gl_log, line) /\ ok_log' = ok_log
          ELSE ok_log' = Append(ok_log, line) /\ gl_log' = gl_log
    /\ UNCHANGED <<conf, up, running, pc, order, gl_params, gl_results, gl_logs,
                   ok_start, ok_events, gwv, hist>>

InitLines == Init /\ script \in {"gitlab", "okta"}
WithLines == ForeignLine \/ Environment \/ NextGL \/ NextOK
SpecLines == InitLines /\ [][WithLines]_vars

\* Raw events of any shape, as an API may return them.  For each key a set
\* of values to pick from; Absent among them lets the key be left out.
Absent == [t |-> "absent", v |-> 0]
Shapes(options) ==
    {JDict([key \in {k \in DOMAIN f : f[k] # Absent} |-> f[key]]) :
        f \in {g \in [DOMAIN options -> UNION {options[k] : k \in DOMAIN options}] :
                  \A k \in DOMAIN options : g[k] \in options[k]}}
Lists(items) == {JList(q) : q \in UNION {[1..n -> items] : n \in 0..MaxListLen}}

\* activities: 'id' with its 'time' (get_latest_timestamp reads it), and
\* other keys, some of which are spelt like a path into another
GWShapes ==
    Shapes([id |-> Shapes([time |-> {JNum(1)}, uniqueQualifier |-> {Absent, JNum(1)}]),
            id_time |-> {Absent, JNum(2), JStr("x")},
            source |-> {Absent, JNum(2), JStr("x")},
            events |-> {Absent} \cup Lists({JStr("x"), JDict([name |-> JStr("x")])}),
            events_0 |-> {Absent, JNum(2), JDict([name |-> JStr("y")])}])

GLShapes ==
    Shapes([id |-> {Absent, JNum(1)},
            created_at |-> {Absent, JNum(1)},
            details |-> {Absent, JStr("x")} \cup
                Shapes([change |-> {Absent, JStr("x")},
                        registration_details |->
                            {Absent, JStr("x"), JDict([ip |-> JStr("x")])}]),
            details_change |-> {Absent, JStr("y")},
            source |-> {Absent, JStr("x")}])

OKShapes ==
    Shapes([uuid |-> {JNum(1)},
            published |-> {Absent, JNum(1)},
            target |-> {Absent, JStr("x")} \cup
                Lists({JStr("x"), JDict([type |-> JStr("User")])}),
            target_type_0 |-> {Absent, JStr("y")},
            source |-> {Absent, JStr("x")}])

\* each script with one raw event of any shape just fetched, about to
\* handle it
InitShapes ==
    /\ script \in Sources
    /\ event_types = <<"admin", "groups">>
    /\ up = [s \in Streams |-> 0]
    /\ running = script /\ order = "asc"
    /\ pc = CASE script = "gw" -> "gw_update" [] script = "gitlab" -> "gl_main"
               [] OTHER -> "ok_main"
    /\ gl_log = <<>> /\ gl_params = [page |-> 1, created_after |-> 0]
    /\ IF script = "gitlab"
       THEN \E y \in GLShapes : gl_results = <<y>> /\ gl_logs = <<y>>
       ELSE gl_results = <<>> /\ gl_logs = <<>>
    /\ ok_log = <<>> /\ ok_start = 0
    /\ IF script = "okta" THEN \E y \in OKShapes : ok_events = <<y>> ELSE ok_events = <<>>
    /\ gw_log = <<>> /\ gw_file = NoType /\ gw_torn = FALSE /\ gw_last = NoType
    /\ gw_idx = 1 /\ gw_token = None
    /\ IF script = "gw" THEN \E y \in GWShapes : gw_logs = <<y>> ELSE gw_logs = <<>>
    /\ outcome = NoOutcome /\ bound0 = NoStream /\ seen = NoneSeen
    /\ log0 = 0 /\ lied = FALSE /\ last = NoPage /\ mode = "first" /\ prev = "dirty"
Handles == GW_Update \/ GW_SaveLogs \/ GL_Main \/ OK_Main
SpecShapes == InitShapes /\ [][Handles]_vars

\* write_logs called again and again, each time with a batch of events some
\* of which have the same key; an Okta event may come without 'published'
GLBatchEvents == Shapes([id |-> {JNum(1), JNum(2)}, created_at |-> {JNum(1)}])
OKBatchEvents == Shapes([uuid |-> {JNum(1)}, published |-> {Absent, JNum(1), JNum(3)}])
Batches(events) == UNION {[1..n -> events] : n \in 1..MaxBatch}

\* main gets a batch to write
GL_Batch ==
    /\ running = "gitlab" /\ pc = "exit"
    /\ pc' = "gl_main"
    /\ gl_logs' \in Batches(GLBatchEvents)
    /\ outcome' = NoOutcome /\ log0' = Len(gl_log)
    /\ UNCHANGED <<conf, up, running, order, gl_log, gl_params, gl_results, okv, gwv,
                   bound0, seen, lied, last, mode, prev>>

OK_Batch ==
    /\ running = "okta" /\ pc = "exit"
    /\ pc' = "ok_main"
    /\ ok_events' \in Batches(OKBatchEvents)
    /\ outcome' = NoOutcome /\ log0' = Len(ok_log)
    /\ UNCHANGED <<conf, up, running, order, ok_log, ok_start, glv, gwv,
                   bound0, seen, lied, last, mode, prev>>

InitWrites ==
    /\ script \in {"gitlab", "okta"}
    /\ event_types = <<"admin", "groups">>
    /\ up = [s \in Streams |-> 0]
    /\ running = script /\ pc = "exit" /\ order = "asc"
    /\ gl_log = <<>> /\ gl_params = [page |-> 1, created_after |-> 0]
    /\ gl_results = <<>> /\ gl_logs = <<>>
    /\ ok_log = <<>> /\ ok_start = 0 /\ ok_events = <<>>
    /\ gw_log = <<>> /\ gw_file = NoType /\ gw_torn = FALSE /\ gw_last = NoType
    /\ gw_idx = 1 /\ gw_logs = <<>> /\ gw_token = None
    /\ outcome = NoOutcome /\ bound0 = NoStream /\ seen = NoneSeen
    /\ log0 = 0 /\ lied = FALSE /\ last = NoPage /\ mode = "first" /\ prev = "dirty"
Writes == GL_Batch \/ GL_Main \/ OK_Batch \/ OK_Main
SpecWrites == InitWrites /\ [][Writes]_vars

\* the Google Workspace script pulling three applications, run on what
\* is upstream, with no process killed
InitThree ==
    /\ script = "gw"
    /\ event_types = <<"admin", "groups", "saml">>
    /\ up \in [Streams -> 0..NEvents] /\ up["gitlab"] = 0 /\ up["okta"] = 0
    /\ running = "none" /\ pc = "idle" /\ order = "asc"
    /\ gl_log = <<>> /\ gl_params = [page |-> 1, created_after |-> 0]
    /\ gl_results = <<>> /\ gl_logs = <<>>
    /\ ok_log = <<>> /\ ok_start = 0 /\ ok_events = <<>>
    /\ gw_log = <<>> /\ gw_file = NoType /\ gw_torn = FALSE /\ gw_last = NoType
    /\ gw_idx = 1 /\ gw_logs = <<>> /\ gw_token = None
    /\ outcome = NoOutcome /\ bound0 = NoStream /\ seen = NoneSeen
    /\ log0 = 0 /\ lied = FALSE /\ last = NoPage /\ mode = "first" /\ prev = "dirty"
RunsGW == Reap \/ NextGW
SpecThree == InitThree /\ [][RunsGW]_vars

\* ------------------------------------------------------------ properties
SourceOf(s) == IF s \in Types THEN "gw" ELSE s
LogOf(src) == CASE src = "gitlab" -> gl_log [] src = "okta" -> ok_log [] OTHER -> gw_log

\* the line is the record of event number e of stream s
IsRecordOf(line, s, e) ==
    /\ Decodes(line)
    /\ CASE s = "gitlab" -> Has(line, "id") /\ line.v["id"] = JNum(e)
         [] s = "okta" -> Has(line, "uuid") /\ line.v["uuid"] = JNum(e)
         [] OTHER -> /\ Has(line, "id_applicationName") /\ Has(line, "id_uniqueQualifier")
                     /\ line.v["id_applicationName"] = JStr(s)
                     /\ line.v["id_uniqueQualifier"] = JNum(e)

Records(file, s, e) == {k \in 1..Len(file) : IsRecordOf(file[k], s, e)}
Written(s, e) == Records(LogOf(SourceOf(s)), s, e) # {}

\* The watermark of a stream as the next cycle will read it: the entry of
\* last_timestamps.json, or the timestamp of the last line of the log in
\* the form get_last_timestamp returns it (None: no line, the default applies).
WatermarkIn(s, file) ==
    CASE s = "gitlab" -> IF LastDecoded(file) > 0 THEN GL_get_last_timestamp(file, 0) ELSE None
      [] s = "okta" -> IF LastDecoded(file) > 0 THEN OK_get_last_timestamp(file, 0) ELSE None
      [] OTHER -> gw_file[s]

Watermark(s) == WatermarkIn(s, LogOf(SourceOf(s)))

\* the watermark the running cycle started from
Watermark0(s) ==
    IF s \in Types THEN bound0[s] ELSE WatermarkIn(s, SubSeq(LogOf(s), 1, log0))

\* a timestamp in the form the stream's watermark has
AsWatermark(s, t) == IF s = "gitlab" THEN TruncSec(t) ELSE t

Returned == running # "none" /\ pc = "exit"
Ended == running # "none" /\ pc \in {"exit", "dead"}
Mine == StreamsOf(running)

\* C1: a run of main that follows a completed run, with no event arrived in
\* between, appends no record and leaves every watermark as it was (the API
\* answering truthfully in both runs).
C1_Idempotence ==
    (Returned /\ mode = "rerun" /\ ~lied) =>
        /\ Len(LogOf(running)) = log0
        /\ \A s \in Mine : Watermark(s) = Watermark0(s)

\* C2: an event that an earlier cycle wrote and that this cycle fetched again
\* has exactly one record in the log when the run returns.
C2_DedupAcrossWindows ==
    (Returned /\ ~lied) =>
        \A s \in Mine : \A e \in seen[s] :
            (\E k \in Records(LogOf(running), s, e) : k <= log0)
                => Cardinality(Records(LogOf(running), s, e)) = 1

\* C3: the run that follows a Google Workspace process killed after
\* save_logs_to_file and before save_last_timestamps leaves no duplicate
\* record in the log.
C3_NoDuplicateAfterCrash ==
    (Returned /\ mode = "recovery") => NoDuplicateLines(gw_log)

\* C4: when a run ends, no event between the cycle's starting bound and the
\* new watermark is missing from the log (the watermark has not advanced
\* past an unwritten event), even with an API that answers truthfully.
C4_WatermarkNeverPassesUnwritten ==
    (Ended /\ ~lied) =>
        \A s \in Mine : \A e \in 1..up[s] :
            (AsWatermark(s, TS(e)) >= bound0[s] /\ TS(e) < Watermark(s)) => Written(s, e)

\* C5: a cycle that ended aborted has left the watermark of its stream as
\* it was when the cycle started (the API answering truthfully up to the
\* failure).
C5_AbortKeepsWatermark ==
    (Ended /\ ~lied) => \A s \in Mine : outcome[s] = "aborted" => Watermark(s) = Watermark0(s)

\* C6 as stated: the persisted watermark is never at or beyond the timestamp
\* of an event fetched in the current run that is not yet in the log.
C6_NeverAtOrBeyondUnwritten ==
    running = "gw" =>
        \A et \in Types : \A e \in seen[et] : ~Written(et, e) => gw_file[et] < TS(e)

\* C6 as amended: last_timestamps.json is changed only when every event
\* fetched in the run is in the log; in no state has the run changed the
\* persisted watermark while an event it fetched is not yet in the log.
C6_WriteBeforeWatermark ==
    /\ [](running = "gw" =>
            ((\E et \in Types : gw_file[et] # bound0[et])
                => \A et \in Types : \A e \in seen[et] : Written(et, e)))
    /\ [][gw_file' # gw_file => \A et \in Types : \A e \in seen[et] : Written(et, e)]_vars

\* witness of C6: the watermark file has just been advanced by a run that
\* fetched events over several pages
C6_Witness ==
    /\ running = "gw" /\ pc = "exit"
    /\ \E et \in Types : gw_file[et] # bound0[et] /\ Cardinality(seen[et]) > PageSize

\* C7: the watermark of every stream never decreases.
C7_WatermarkMonotone ==
    [][\A s \in Streams : Watermark(s)' >= Watermark(s)]_vars

\* witness of C7: a completed cycle has advanced a watermark that was
\* already set by an earlier cycle
C7_Witness ==
    /\ Returned
    /\ \E s \in Mine : outcome[s] = "done" /\ Watermark0(s) # None /\ Watermark(s) > Watermark0(s)

\* C8: after a successful cycle the watermark is the maximum timestamp of
\* the events fetched, or unchanged when none was fetched.
C8_WatermarkIsMaximum ==
    (Returned /\ ~lied) =>
        \A s \in Mine : outcome[s] = "done" =>
            IF seen[s] # {}
            THEN Watermark(s) = AsWatermark(s, MaxOf({TS(e) : e \in seen[s]}))
            ELSE Watermark(s) = Watermark0(s)

\* C9: no pagination loop goes on to request a page beyond the maximum
\* page count; the cycle is aborted instead.
C9_BoundedPagination ==
    /\ (running = "gitlab" /\ pc = "gl_get_logs") => gl_params.page <= MaxPages
    /\ (running = "gw" /\ pc = "gw_fetch" /\ gw_token # None) => gw_token <= MaxPages

\* C10: an answer with zero events ends the pagination loop at once, also
\* when it carries a continuation, and what earlier pages gave is kept.
C10_EmptyPageEndsLoop ==
    [][(last'.n = last.n + 1 /\ last'.status = 200 /\ last'.items = 0) =>
          \/ /\ running = "gw" /\ pc' = "gw_update"
             /\ gw_logs' = gw_logs
          \/ /\ running = "gitlab" /\ pc' = "gl_main"
             /\ gl_results' = gl_results /\ gl_logs' = gl_results]_vars

\* witness of C10: an empty page that carried a continuation came after a
\* page with events, and the loop has been left with those events
C10_Witness ==
    /\ last.n >= 2 /\ last.status = 200 /\ last.items = 0 /\ last.more
    /\ \/ running = "gw" /\ pc = "gw_update" /\ gw_logs # <<>>
       \/ running = "gitlab" /\ pc = "gl_main" /\ gl_logs # <<>>

\* C11: every call of a connector carries a defined lower time bound: the
\* watermark, or the source's default lookback when there is no watermark.
C11_EveryFetchBounded ==
    /\ (running = "gw" /\ pc = "gw_fetch") => gw_last[event_types[gw_idx]] # None
    /\ (running = "gitlab" /\ pc = "gl_get_logs") => gl_params.created_after # None
    /\ (running = "okta" /\ pc = "ok_fetch") => ok_start # None

\* C12: in a run in which the API failed on the first call for one
\* application and on no call for the others, every other application, before
\* or after it in event_types, has been fetched, has all the events fetched
\* in the log and has the newest of their timestamps saved as its watermark;
\* the watermark of the failing application is as it was.
C12_PartialFailureIsolation ==
    (Returned /\ running = "gw") =>
        \A bad \in Mine :
            (/\ outcome[bad] = "aborted" /\ seen[bad] = {}
             /\ \A et \in Mine \ {bad} : outcome[et] # "aborted")
            => /\ gw_file[bad] = bound0[bad]
               /\ \A et \in Mine \ {bad} :
                    /\ outcome[et] = "done"
                    /\ \A e \in seen[et] : Written(et, e)
                    /\ seen[et] # {} => gw_file[et] = MaxOf({TS(e) : e \in seen[et]})

\* witness of C12: the second of three applications failed, and the first
\* and the third each brought events that are now in the log
C12_Witness ==
    /\ Returned /\ running = "gw" /\ Len(event_types) = 3
    /\ outcome[event_types[2]] = "aborted" /\ seen[event_types[2]] = {}
    /\ up[event_types[2]] > 0
    /\ \A i \in {1, 3} :
         /\ outcome[event_types[i]] = "done" /\ seen[event_types[i]] # {}
         /\ gw_file[event_types[i]] # bound0[event_types[i]]

\* C13: after the process has died, at whatever step, last_timestamps.json
\* holds a complete document, the previous one or the new one.
C13_AtomicSave == pc = "dead" => ~gw_torn

\* C14: a line of the log that is not a valid record, whether it fails to
\* decode or decodes without the key the reader looks up, is skipped: no run
\* of the GitLab or the Okta script is ended by it.
C14_RecordErrorsAbsorbed ==
    \A s \in {"gitlab", "okta"} : outcome[s] # "raised"

\* the name each connector gives as 'source'
ConnectorName(src) ==
    CASE src = "gitlab" -> "gitlab-events" [] src = "okta" -> "okta-events"
      [] OTHER -> "google-workspace"

\* C15: every record in a log carries a 'source' whose value is the name of
\* the connector that wrote it, whatever keys the raw event carried.
C15_SourceDiscriminator ==
    \A src \in Sources : \A k \in 1..Len(LogOf(src)) :
        /\ Has(LogOf(src)[k], "source")
        /\ LogOf(src)[k].v["source"] = JStr(ConnectorName(src))

\* C16: no value of a record in a log is itself a mapping or a sequence.
C16_FlatRecordsHoldScalars ==
    \A src \in Sources : \A k \in 1..Len(LogOf(src)) :
        \A key \in DOMAIN LogOf(src)[k].v : IsScalar(LogOf(src)[k].v[key])

\* the scalar leaves of x, each with the path of keys and indices to it
RECURSIVE LeafPaths(_, _)
LeafPaths(x, path) ==
    CASE IsDict(x) -> UNION {LeafPaths(x.v[a], Append(path, a)) : a \in DOMAIN x.v}
      [] IsList(x) -> UNION {LeafPaths(x.v[i], Append(path, ToString(i - 1))) : i \in 1..Len(x.v)}
      [] OTHER -> {<<path, x>>}

\* C17: flatten_json of each activity about to be written has exactly one
\* entry per scalar leaf, under the '_'-joined path of the leaf and with its
\* value; leaves at different places have different keys.
C17_FlattenPreservesLeaves ==
    (running = "gw" /\ pc = "gw_save_logs") =>
        \A k \in 1..Len(gw_logs) :
            LET leaves == LeafPaths(gw_logs[k], <<>>)
                out == flatten_json(gw_logs[k])
            IN  /\ Cardinality(DOMAIN out.v) = Cardinality(leaves)
                /\ \A p \in leaves : out.v[Join(p[1])] = p[2]

IsPrefix(a, b) == Len(a) <= Len(b) /\ SubSeq(b, 1, Len(a)) = a

\* C18: every step leaves each log file with its former content as a prefix:
\* lines are only ever added at the end.
C18_AppendOnly ==
    [][\A src \in Sources : IsPrefix(LogOf(src), LogOf(src)')]_vars

\* witness of C18: a run has added lines to a log that earlier runs had
\* already written to
C18_Witness ==
    /\ Returned /\ log0 > 0
    /\ Len(LogOf(running)) > log0

\* the identity key write_logs goes by
KeyOf(src, event) == IF src = "gitlab" THEN event.v["id"] ELSE OK_timestamp(event)
KeysIn(src, file) == {KeyOf(src, file[k]) : k \in 1..Len(file)}
DistinctKeys(src, file) ==
    \A i, j \in 1..Len(file) : KeyOf(src, file[i]) = KeyOf(src, file[j]) => i = j

\* C19: after a call of write_logs of GitLab or of Okta, every key of the
\* batch (Okta: '' for an event without 'published') is the key of a record of
\* the log, and no two records of the log have the same key.
C19_DedupKeyUniqueness ==
    /\ (running = "gitlab" /\ pc \in {"exit", "dead"}) =>
          DistinctKeys("gitlab", gl_log) /\ KeysIn("gitlab", gl_logs) \subseteq KeysIn("gitlab", gl_log)
    /\ (running = "okta" /\ pc \in {"exit", "dead"}) =>
          DistinctKeys("okta", ok_log) /\ KeysIn("okta", ok_events) \subseteq KeysIn("okta", ok_log)

\* C20: a GitLab cycle in which a page request failed, on whatever page, has
\* an empty result, appends nothing and leaves the watermark as it was.
C20_GitLabAllOrNothing ==
    /\ []((running = "gitlab" /\ outcome["gitlab"] = "aborted") =>
            /\ gl_logs = <<>>
            /\ Len(gl_log) = log0
            /\ Watermark("gitlab") = Watermark0("gitlab"))
    /\ [][(running = "gitlab" /\ outcome'["gitlab"] = "aborted") => gl_log' = gl_log]_vars

\* witness of C20: the failure came after a page that had brought events, and
\* main has returned
C20_Witness ==
    /\ running = "gitlab" /\ pc = "exit"
    /\ outcome["gitlab"] = "aborted" /\ seen["gitlab"] # {}
====
